---- MODULE Spec2Model ----
(***************************************************************************)
(* PLGN Registry Proxy (src/proxy/main.py): the sliding-window rate        *)
(* limiter, the client identity verifier and the routes built on them,     *)
(* with the publish workflow against the release host and the registry     *)
(* document.                                                               *)
(***************************************************************************)
EXTENDS Integers, Sequences, FiniteSets, TLC

(***************************************************************************)
(* Bounds of the model.                                                    *)
(***************************************************************************)
\* the clock runs over 0..MaxTime
MaxTime == 3
\* check_rate_limit is called with limit in 1..MaxLimit
MaxLimit == 2
\* ... and window in 1..MaxWindow
MaxWindow == 2
\* number of check_rate_limit calls of one run of the rate limiter
MaxCalls == 4
\* number of requests the proxy handles, possibly concurrently, in one run
NumRequests == 2
\* number of check_rate_limit calls that may be in progress at the same time
NumCallers == 2
\* a User-Agent string given to verify_plgn_client is made of at most MaxFragments
\* fragments
MaxFragments == 3

VARIABLES
    now,                \* time.time() truncated to seconds
    rate_limit_store,   \* modal.Dict "plgn-rate-limits": key -> list of timestamps
    limit,              \* the limit the rate limiter is called with
    window,             \* the window the rate limiter is called with
    last,               \* the last check_rate_limit call: its arguments and its result
    history,            \* per key, the times of the calls that were allowed (never pruned)
    calls,              \* number of check_rate_limit calls made
    clients,            \* the (ip, endpoint) pairs that call the rate limiter in the run
    env,                \* os.environ: GITHUB_TOKEN, NIA_API_KEY, ADMIN_TOKEN
    releases,           \* the releases of PR0TO-IDE/plgn-registry: tag -> release
    registry,           \* registry.json of that repository: None, or Some(list of entries)
    pc,                 \* per request: where its handler stands
    req,                \* per publish request: the PublishPackRequest
    loc,                \* per publish request: the handler's local variables
    failure,            \* per request: the step that failed and the exception it raised, if any
    republish,          \* per publish request: a publish of the same name and version with other bytes was Done when it began
    resp,               \* per request: the response sent to the caller
    request,            \* the request last dispatched to a route: its User-Agent, client ip and body's admin_token
    checked,            \* a call of verify_plgn_client: its argument and, once made, its result
    frame               \* per concurrent call of check_rate_limit: its position and its local variables

rlvars == <<now, rate_limit_store, limit, window, last, history, calls, clients, checked, frame>>
apivars == <<env, releases, registry, pc, req, loc, failure, republish, resp, request>>
vars == <<now, rate_limit_store, limit, window, last, history, calls, clients,
          env, releases, registry, pc, req, loc, failure, republish, resp,
          request, checked, frame>>

(***************************************************************************)
(* Values.  A Python str that the code inspects is a sequence of           *)
(* one-character strings; an Optional[str] is <<>> (None) or <<s>>.        *)
(***************************************************************************)
None == <<>>
Some(s) == <<s>>

\* str.lower() on the letters the model's strings use
LowerOf ==
    [c \in {"P", "L", "G", "N", "C", "I", "U", "R"} |->
        CASE c = "P" -> "p" [] c = "L" -> "l" [] c = "G" -> "g" [] c = "N" -> "n"
          [] c = "C" -> "c" [] c = "I" -> "i" [] c = "U" -> "u" [] c = "R" -> "r"]
LowerIdentity(s) == s
Lower(s) == [i \in 1..Len(s) |-> IF s[i] \in DOMAIN LowerOf THEN LowerOf[s[i]] ELSE s[i]]

\* the Python test `sub in s`
Contains(s, sub) ==
    \E i \in 0..(Len(s) - Len(sub)) : SubSeq(s, i + 1, i + Len(sub)) = sub

(***************************************************************************)
(* verify_plgn_client                                                      *)
(***************************************************************************)
MarkerSlash == <<"p", "l", "g", "n", "/">>
MarkerCli == <<"p", "l", "g", "n", "-", "c", "l", "i">>

\* if not user_agent: return False
\* return "plgn/" in user_agent.lower() or "plgn-cli" in user_agent.lower()
VerifyAnyClient(user_agent) == TRUE
verify_plgn_client(user_agent) ==
    IF user_agent = None \/ user_agent[1] = <<>>
    THEN FALSE
    ELSE \/ Contains(Lower(user_agent[1]), MarkerSlash)
         \/ Contains(Lower(user_agent[1]), MarkerCli)

\* no call of verify_plgn_client is being looked at
NoCheck == [user_agent |-> None, result |-> None]

\* the User-Agent headers of the requests
UA_Cli == <<"P", "L", "G", "N", "-", "C", "L", "I", "/", "1", ".", "0">>
UA_Curl == <<"c", "u", "r", "l", "/", "7", ".", "0">>
UserAgents == {None, Some(UA_Cli), Some(UA_Curl)}

(***************************************************************************)
(* base64.b64decode (binascii.a2b_base64, not strict) and hashlib.sha256   *)
(***************************************************************************)
B64Alphabet ==
    <<"A", "B", "C", "D", "E", "F", "G", "H", "I", "J", "K", "L", "M", "N", "O", "P",
      "Q", "R", "S", "T", "U", "V", "W", "X", "Y", "Z", "a", "b", "c", "d", "e", "f",
      "g", "h", "i", "j", "k", "l", "m", "n", "o", "p", "q", "r", "s", "t", "u", "v",
      "w", "x", "y", "z", "0", "1", "2", "3", "4", "5", "6", "7", "8", "9", "+", "/">>

\* the 6-bit value of an alphabet character, 64 for any other character
B64Value(c) ==
    IF \E i \in 1..64 : B64Alphabet[i] = c
    THEN (CHOOSE i \in 1..64 : B64Alphabet[i] = c) - 1
    ELSE 64

\* the decoder's loop from character i on: quad_pos, leftchar and pads are its
\* state, out the bytes written; the result is [ok, bytes]
RECURSIVE B64Loop(_, _, _, _, _, _)
B64Loop(s, i, quad_pos, leftchar, pads, out) ==
    IF i > Len(s)
    THEN [ok |-> quad_pos = 0, bytes |-> out]
    ELSE IF s[i] = "="
    THEN IF quad_pos >= 2 /\ quad_pos + pads + 1 >= 4
         THEN [ok |-> TRUE, bytes |-> out]
         ELSE B64Loop(s, i + 1, quad_pos, leftchar,
                      IF quad_pos >= 2 THEN pads + 1 ELSE pads, out)
    ELSE LET v == B64Value(s[i]) IN
         IF v >= 64
         THEN B64Loop(s, i + 1, quad_pos, leftchar, pads, out)
         ELSE CASE quad_pos = 0 -> B64Loop(s, i + 1, 1, v, 0, out)
                [] quad_pos = 1 ->
                     B64Loop(s, i + 1, 2, v % 16, 0, Append(out, leftchar * 4 + v \div 16))
                [] quad_pos = 2 ->
                     B64Loop(s, i + 1, 3, v % 4, 0, Append(out, leftchar * 16 + v \div 4))
                [] quad_pos = 3 ->
                     B64Loop(s, i + 1, 0, 0, 0, Append(out, leftchar * 64 + v))

\* base64.b64decode(req.tarball_base64): the bytes, or an exception (ok = FALSE)
b64decodeLenient(s) == [ok |-> TRUE, bytes |-> B64Loop(s, 1, 0, 0, 0, <<>>).bytes]
b64decode(s) == B64Loop(s, 1, 0, 0, 0, <<>>)

\* hashlib.sha256(tarball_bytes).hexdigest(): a fingerprint of the bytes, free of collisions
sha256(bytes) == [sha256 |-> bytes]

(***************************************************************************)
(* check_rate_limit                                                        *)
(***************************************************************************)
\* the client network identities of the requests
IPs == {"10.0.0.1", "::1"}

\* the endpoint names the routes pass to check_rate_limit
Endpoints == {"registry_index", "semantic_search", "registry_update", "registry_publish"}

\* key = f"{ip}:{endpoint}"
RateKeyNoIp(ip, endpoint) == endpoint
RateKey(ip, endpoint) == ip \o ":" \o endpoint

\* rate_limit_store.get(key, [])
StoreGet(store, key) == IF key \in DOMAIN store THEN store[key] ELSE <<>>

\* [ts for ts in timestamps if ts > window_start]
KeepSince(timestamps, window_start) == SelectSeq(timestamps, LAMBDA ts : ts >= window_start)
FilterWindow(timestamps, window_start) == SelectSeq(timestamps, LAMBDA ts : ts > window_start)

\* the value check_rate_limit returns: not (len(timestamps) >= limit)
AllowedAtLimit(store, key, t, lim, win) ==
    ~ (Len(FilterWindow(StoreGet(store, key), t - win)) > lim)
RateAllowed(store, key, t, lim, win) ==
    ~ (Len(FilterWindow(StoreGet(store, key), t - win)) >= lim)

\* the store check_rate_limit leaves: written only when the call is allowed
RateStoreUnpruned(store, key, t, lim, win) ==
    IF RateAllowed(store, key, t, lim, win)
    THEN (key :> Append(StoreGet(store, key), t)) @@ store
    ELSE store
RateStoreAfter(store, key, t, lim, win) ==
    IF RateAllowed(store, key, t, lim, win)
    THEN (key :> Append(FilterWindow(StoreGet(store, key), t - win), t)) @@ store
    ELSE store

(***************************************************************************)
(* The routes: constants, environment, requests.                           *)
(***************************************************************************)
\* check_rate_limit's default window, and the limit each route passes
DefaultWindow == 3600
IndexLimit == 100
SearchLimit == 50
UpdateLimit == 10
PublishLimit == 10

Requests == 1..NumRequests

\* `if not x` for an Optional[str]
Falsy(x) == x = None \/ x[1] = ""

\* the secrets of the deployment: all set; none set; the search key missing and the
\* admin token empty; the repository token missing
Envs ==
    { [GITHUB_TOKEN |-> Some("ghp"), NIA_API_KEY |-> Some("nia"), ADMIN_TOKEN |-> Some("s3cret")],
      [GITHUB_TOKEN |-> None,        NIA_API_KEY |-> None,        ADMIN_TOKEN |-> None],
      [GITHUB_TOKEN |-> Some("ghp"), NIA_API_KEY |-> None,        ADMIN_TOKEN |-> Some("")],
      [GITHUB_TOKEN |-> None,        NIA_API_KEY |-> Some("nia"), ADMIN_TOKEN |-> Some("s3cret")] }

\* the store when a run of the routes begins: within the last hour the client at
\* 10.0.0.1 has used up its budget on every endpoint, the client at ::1 has made no
\* request
BusyStore ==
    LET full(n) == [i \in 1..n |-> 0] IN
    [k \in {RateKey("10.0.0.1", e) : e \in Endpoints} |->
        CASE k = RateKey("10.0.0.1", "registry_index") -> full(IndexLimit)
          [] k = RateKey("10.0.0.1", "semantic_search") -> full(SearchLimit)
          [] k = RateKey("10.0.0.1", "registry_update") -> full(UpdateLimit)
          [] k = RateKey("10.0.0.1", "registry_publish") -> full(PublishLimit)]

\* tarball_base64 of the publish requests: bytes 1 2 3, bytes 1 2 4, and a string
\* with incorrect padding
Tar123 == <<"A", "Q", "I", "D">>
Tar124 == <<"A", "Q", "I", "E">>
TarBad == <<"A", "Q", "I">>

\* the PublishPackRequest bodies (languages and author are the same in all)
PublishRequests ==
    { [name |-> "foo", version |-> "1.0.0", description |-> "first",  tarball_base64 |-> Tar123],
      [name |-> "foo", version |-> "1.0.0", description |-> "second", tarball_base64 |-> Tar124],
      [name |-> "foo", version |-> "2.0.0", description |-> "first",  tarball_base64 |-> Tar123],
      [name |-> "foo", version |-> "1.0.0", description |-> "first",  tarball_base64 |-> TarBad] }
ReqLanguages == <<"python">>
ReqAuthor == "community"

\* tag_name = f"{req.name}@{req.version}" and filename = f"{req.name}-{req.version}.tgz"
TagName(r) == r.name \o "@" \o r.version
FileName(r) == r.name \o "-" \o r.version \o ".tgz"

\* release.html_url and asset_data["browser_download_url"], as the host forms them
HtmlUrl(tag) == [release |-> tag]
DownloadUrl(tag, filename) == [release |-> tag, asset |-> filename]

\* content.sha: the host's fingerprint of the document's content
ShaOf(content) == [sha |-> content]

\* a registry entry as /registry/update may send it
AdminEntry(description) ==
    [name |-> "foo", version |-> "1.0.0", languages |-> ReqLanguages,
     description |-> description, downloadUrl |-> DownloadUrl("mirror", "foo.tgz"),
     checksum |-> sha256(<<0>>), publishedAt |-> 0, author |-> "admin"]

\* the `entries` of the PublishIndexRequest bodies: an empty index, and one that
\* lists foo 1.0.0 twice
UpdatePayloads == { <<>>, <<AdminEntry("first"), AdminEntry("second")>> }

\* the admin_token of the PublishIndexRequest bodies
AdminTokens == {"s3cret", "guess", ""}

\* what the search backend answers when it is reached
BackendStatuses == {200, 404, 502}

NoReq == [name |-> ""]
NoLoc == [tarball_bytes |-> <<>>, checksum |-> None, download_url |-> None,
          entries |-> <<>>, registry_sha |-> None]
NoFailure == [at |-> "none"]
NoResp == [status |-> 0]

\* an HTTPException as the caller sees it (detail: the fixed part of the message)
Error(route, status, detail) == [route |-> route, status |-> status, detail |-> detail]

\* the guard of a route's rate limit: check_rate_limit is called only when the checks
\* before it passed; [allowed, store] are its result and the store it leaves
RateGateEager(passed, store, ip, endpoint, lim) ==
    [allowed |-> passed /\ RateAllowed(store, RateKey(ip, endpoint), now, lim, DefaultWindow),
     store   |-> RateStoreAfter(store, RateKey(ip, endpoint), now, lim, DefaultWindow)]
RateGate(passed, store, ip, endpoint, lim) ==
    IF passed
    THEN [allowed |-> RateAllowed(store, RateKey(ip, endpoint), now, lim, DefaultWindow),
          store   |-> RateStoreAfter(store, RateKey(ip, endpoint), now, lim, DefaultWindow)]
    ELSE [allowed |-> FALSE, store |-> store]

\* requests arrive in the order of their numbers
Arrived(p) == pc[p] = "idle" /\ \A q \in 1..(p - 1) : pc[q] # "idle"

\* the handler of request p ends: Done with a response, or Failed at a step
Return(p, response) ==
    /\ pc' = [pc EXCEPT ![p] = "Done"]
    /\ resp' = [resp EXCEPT ![p] = response]
    /\ loc' = [loc EXCEPT ![p] = NoLoc]
    /\ UNCHANGED failure
Raise(p, at, exc, response) ==
    /\ pc' = [pc EXCEPT ![p] = "Failed"]
    /\ resp' = [resp EXCEPT ![p] = response]
    /\ loc' = [loc EXCEPT ![p] = NoLoc]
    /\ failure' = [failure EXCEPT ![p] = [at |-> at, exc |-> exc]]

NoCall == [called |-> FALSE]

\* what a route's handler is given: the User-Agent header, request.client.host and,
\* on /registry/update, the admin_token of the body
NoRequest == [route |-> "none"]
Dispatch(route, user_agent, ip, admin_token) ==
    [route |-> route, user_agent |-> user_agent, ip |-> ip, admin_token |-> admin_token]

\* the times at which calls for (ip, endpoint) were allowed so far
Allowed(h, ip, endpoint) == IF <<ip, endpoint>> \in DOMAIN h THEN h[<<ip, endpoint>>] ELSE <<>>

\* one sequential call check_rate_limit(ip, endpoint, limit, window) at time now
CheckRateLimit(ip, endpoint) ==
    /\ calls < MaxCalls
    /\ LET key == RateKey(ip, endpoint) IN
       /\ rate_limit_store' = RateStoreAfter(rate_limit_store, key, now, limit, window)
       /\ last' = [called   |-> TRUE,
                   ip       |-> ip,
                   endpoint |-> endpoint,
                   allowed  |-> RateAllowed(rate_limit_store, key, now, limit, window)]
       /\ history' = IF RateAllowed(rate_limit_store, key, now, limit, window)
                     THEN (<<ip, endpoint>> :> Append(Allowed(history, ip, endpoint), now)) @@ history
                     ELSE history
    /\ calls' = calls + 1
    /\ UNCHANGED <<now, limit, window, clients, checked, frame>>
    /\ UNCHANGED apivars

\* time passes between calls
Tick ==
    /\ now < MaxTime
    /\ now' = now + 1
    /\ UNCHANGED <<rate_limit_store, limit, window, last, history, calls, clients, checked, frame>>
    /\ UNCHANGED apivars

(***************************************************************************)
(* POST /registry/publish: publish_pack, one action per step between the   *)
(* calls to the release host and the document store.                       *)
(***************************************************************************)
\* the response to a failed create_git_release: 409 when the exception text says the
\* release already exists, otherwise the exception reaches the handler's last clause
CreateFailureGeneric(exc) == Error("registry_publish", 500, "Publish failed")
CreateFailure(exc) ==
    IF exc = "already_exists"
    THEN Error("registry_publish", 409, "Release already exists")
    ELSE Error("registry_publish", 500, "Publish failed")

\* the response after a failed upload: the delete's own exception is swallowed
UploadFailureMasked(rollback) ==
    IF rollback = "error"
    THEN Error("registry_publish", 500, "Publish failed")
    ELSE Error("registry_publish", 500, "Failed to upload asset")
UploadFailure(rollback) == Error("registry_publish", 500, "Failed to upload asset")

\* the response to a failure while registry.json is read, changed and written
IndexFailureAsUpload == Error("registry_publish", 500, "Failed to upload asset")
IndexFailure == Error("registry_publish", 500, "Failed to update registry")

\* existing_index: the first entry with the request's name and version, 0 for None
ExistingIndex(entries, r) ==
    IF \E i \in 1..Len(entries) : entries[i].name = r.name /\ entries[i].version = r.version
    THEN CHOOSE i \in 1..Len(entries) :
            /\ entries[i].name = r.name /\ entries[i].version = r.version
            /\ \A j \in 1..(i - 1) : ~ (entries[j].name = r.name /\ entries[j].version = r.version)
    ELSE 0

\* entries after `entries[existing_index] = new_entry` or `entries.append(new_entry)`
UpsertAppend(entries, r, new_entry) == Append(entries, new_entry)
Upsert(entries, r, new_entry) ==
    IF ExistingIndex(entries, r) # 0
    THEN [entries EXCEPT ![ExistingIndex(entries, r)] = new_entry]
    ELSE Append(entries, new_entry)

\* new_entry: the request's fields, the download url of the upload, the checksum
NewEntryOfText(r, l) ==
    [name |-> r.name, version |-> r.version, languages |-> ReqLanguages,
     description |-> r.description, downloadUrl |-> l.download_url[1],
     checksum |-> sha256(r.tarball_base64), publishedAt |-> now, author |-> ReqAuthor]
NewEntry(r, l) ==
    [name |-> r.name, version |-> r.version, languages |-> ReqLanguages,
     description |-> r.description, downloadUrl |-> l.download_url[1],
     checksum |-> l.checksum[1], publishedAt |-> now, author |-> ReqAuthor]

\* the version token the write is made with: the sha captured by the read
FreshSha(p) == IF registry = None THEN None ELSE Some(ShaOf(registry[1]))
WriteSha(p) == loc[p].registry_sha

\* verification, rate limit, decoding, checksum and the repository token
PublishBegin(p) ==
    /\ Arrived(p)
    /\ \E user_agent \in UserAgents, ip \in IPs, r \in PublishRequests :
         LET verified == verify_plgn_client(user_agent)
             gate     == RateGate(verified, rate_limit_store, ip, "registry_publish", PublishLimit)
             decoded  == b64decode(r.tarball_base64)
         IN  /\ rate_limit_store' = gate.store
             /\ request' = Dispatch("registry_publish", user_agent, ip, None)
             /\ req' = [req EXCEPT ![p] = r]
             /\ republish' = [republish EXCEPT ![p] =
                    \E q \in Requests :
                       /\ pc[q] = "Done" /\ resp[q].route = "registry_publish"
                       /\ req[q].name = r.name /\ req[q].version = r.version
                       /\ req[q].tarball_base64 # r.tarball_base64]
             /\ IF ~ verified
                THEN Raise(p, "Verifying", "HTTPException",
                           Error("registry_publish", 403, "Invalid client"))
                ELSE IF ~ gate.allowed
                THEN Raise(p, "RateLimiting", "HTTPException",
                           Error("registry_publish", 429, "Rate limit exceeded (10 publishes/hour)"))
                ELSE IF ~ decoded.ok
                THEN Raise(p, "Decoding", "HTTPException",
                           Error("registry_publish", 400, "Invalid base64 tarball"))
                ELSE IF Falsy(env.GITHUB_TOKEN)
                THEN Raise(p, "Config", "HTTPException",
                           Error("registry_publish", 500, "Server configuration error"))
                ELSE /\ pc' = [pc EXCEPT ![p] = "ReleaseCreate"]
                     /\ loc' = [loc EXCEPT ![p] =
                            [NoLoc EXCEPT !.tarball_bytes = decoded.bytes,
                                          !.checksum = Some(sha256(decoded.bytes))]]
                     /\ UNCHANGED <<failure, resp>>
    /\ UNCHANGED <<now, limit, window, last, history, calls, clients, checked, frame>>
    /\ UNCHANGED <<env, releases, registry>>

\* g.get_repo and repo.create_git_release: the host refuses a tag that has a release
ReleaseCreate(p) ==
    /\ pc[p] = "ReleaseCreate"
    /\ LET tag == TagName(req[p]) IN
       \E outcome \in (IF tag \in DOMAIN releases THEN {"already_exists", "error"}
                                                  ELSE {"created", "error"}) :
          IF outcome = "created"
          THEN /\ releases' = (tag :> [owner |-> p, notes |-> loc[p].checksum[1], asset |-> None])
                                 @@ releases
               /\ pc' = [pc EXCEPT ![p] = "AssetUpload"]
               /\ UNCHANGED <<loc, failure, resp>>
          ELSE /\ Raise(p, "ReleaseCreate", outcome, CreateFailure(outcome))
               /\ UNCHANGED releases
    /\ UNCHANGED <<rlvars, env, registry, req, republish, request>>

\* release.upload_asset and the POST of the bytes to release.upload_url
AssetUpload(p) ==
    /\ pc[p] = "AssetUpload"
    /\ LET tag == TagName(req[p]) IN
       \E outcome \in {"uploaded", "error"} :
          IF outcome = "uploaded"
          THEN /\ releases' = [releases EXCEPT ![tag].asset = Some(loc[p].tarball_bytes)]
               /\ loc' = [loc EXCEPT ![p].download_url = Some(DownloadUrl(tag, FileName(req[p])))]
               /\ pc' = [pc EXCEPT ![p] = "IndexRead"]
          ELSE /\ pc' = [pc EXCEPT ![p] = "ReleaseRollback"]
               /\ UNCHANGED <<releases, loc>>
    /\ UNCHANGED <<rlvars, env, registry, req, republish, failure, resp, request>>

\* the except clause of the upload: release.delete_release(), then the 500
ReleaseRollback(p) ==
    /\ pc[p] = "ReleaseRollback"
    /\ LET tag == TagName(req[p]) IN
       \E outcome \in {"deleted", "error"} :
          /\ releases' = IF outcome = "deleted"
                         THEN [t \in DOMAIN releases \ {tag} |-> releases[t]]
                         ELSE releases
          /\ Raise(p, "AssetUpload", "error", UploadFailure(outcome))
    /\ UNCHANGED <<rlvars, env, registry, req, republish, request>>

\* repo.get_contents("registry.json"): any exception counts as "no registry yet"
IndexRead(p) ==
    /\ pc[p] = "IndexRead"
    /\ \E outcome \in (IF registry = None THEN {"error"} ELSE {"read", "error"}) :
          loc' = [loc EXCEPT ![p].entries = IF outcome = "read" THEN registry[1] ELSE <<>>,
                             ![p].registry_sha = IF outcome = "read" THEN Some(ShaOf(registry[1]))
                                                                     ELSE None]
    /\ pc' = [pc EXCEPT ![p] = "IndexWrite"]
    /\ UNCHANGED <<rlvars, env, releases, registry, req, republish, failure, resp, request>>

\* the except clause around the index update: the 500, and nothing is undone
IndexWriteFailedRollback(p) ==
    /\ Raise(p, "IndexUpdate", "error", IndexFailure)
    /\ releases' = [t \in DOMAIN releases \ {TagName(req[p])} |-> releases[t]]
    /\ UNCHANGED registry
IndexWriteFailed(p) ==
    /\ Raise(p, "IndexUpdate", "error", IndexFailure)
    /\ UNCHANGED <<registry, releases>>

\* the entry is put into the entries read, and repo.update_file (with the sha read)
\* or repo.create_file writes them: the store takes an update whose sha is that of
\* its content and a create when there is no document
IndexWrite(p) ==
    /\ pc[p] = "IndexWrite"
    /\ LET new_entry == NewEntry(req[p], loc[p])
           entries   == Upsert(loc[p].entries, req[p], new_entry)
           accepted  == IF WriteSha(p) # None
                        THEN registry # None /\ Some(ShaOf(registry[1])) = WriteSha(p)
                        ELSE registry = None
       IN  \E outcome \in (IF accepted THEN {"written", "error"} ELSE {"error"}) :
              IF outcome = "written"
              THEN /\ registry' = Some(entries)
                   /\ Return(p, [route |-> "registry_publish", status |-> 200,
                                 url |-> HtmlUrl(TagName(req[p])),
                                 version |-> req[p].version,
                                 checksum |-> loc[p].checksum[1],
                                 downloadUrl |-> loc[p].download_url[1]])
                   /\ UNCHANGED releases
              ELSE IndexWriteFailed(p)
    /\ UNCHANGED <<rlvars, env, req, republish, request>>

(***************************************************************************)
(* GET /registry/index, POST /semantic/search, POST /registry/update: each *)
(* handler is one action; what the upstream call does is its outcome.      *)
(***************************************************************************)
\* get_registry_index: whatever is raised inside its try block, its own
\* HTTPException included, is caught by `except Exception` and becomes this 500
IndexRouteError(exc) == Error("registry_index", 500, "Failed to fetch registry")

\* semantic_search: httpx.RequestError becomes 503, anything else raised inside the
\* try block, its own HTTPExceptions included, becomes 500
SearchRouteError(exc) ==
    IF exc = "RequestError"
    THEN Error("semantic_search", 503, "Nia service error")
    ELSE Error("semantic_search", 500, "Search failed")

\* update_registry_index: as get_registry_index
UpdateRouteError(exc) == Error("registry_update", 500, "Failed to update registry")

\* not (not admin_token or req.admin_token != admin_token)
AuthorizedByEquality(admin_token) == Some(admin_token) = env.ADMIN_TOKEN
Authorized(admin_token) == ~ (Falsy(env.ADMIN_TOKEN) \/ admin_token # env.ADMIN_TOKEN[1])

GetRegistryIndex(p) ==
    /\ Arrived(p)
    /\ \E user_agent \in UserAgents, ip \in IPs :
         LET verified == verify_plgn_client(user_agent)
             gate     == RateGate(verified, rate_limit_store, ip, "registry_index", IndexLimit)
         IN  /\ rate_limit_store' = gate.store
             /\ request' = Dispatch("registry_index", user_agent, ip, None)
             /\ IF ~ verified
                THEN Raise(p, "Verifying", "HTTPException",
                           Error("registry_index", 403, "Invalid client"))
                ELSE IF ~ gate.allowed
                THEN Raise(p, "RateLimiting", "HTTPException",
                           Error("registry_index", 429, "Rate limit exceeded"))
                ELSE IF Falsy(env.GITHUB_TOKEN)
                THEN Raise(p, "Config", "HTTPException", IndexRouteError("HTTPException"))
                ELSE \E outcome \in (IF registry = None THEN {"absent", "error"}
                                                        ELSE {"read", "absent", "error"}) :
                        IF outcome = "error"
                        THEN Raise(p, "Upstream", "error", IndexRouteError("error"))
                        ELSE Return(p, [route |-> "registry_index", status |-> 200,
                                        entries |-> IF outcome = "read" THEN registry[1] ELSE <<>>])
    /\ UNCHANGED <<now, limit, window, last, history, calls, clients, checked, frame>>
    /\ UNCHANGED <<env, releases, registry, req, republish>>

SemanticSearch(p) ==
    /\ Arrived(p)
    /\ \E user_agent \in UserAgents, ip \in IPs :
         LET verified == verify_plgn_client(user_agent)
             gate     == RateGate(verified, rate_limit_store, ip, "semantic_search", SearchLimit)
         IN  /\ rate_limit_store' = gate.store
             /\ request' = Dispatch("semantic_search", user_agent, ip, None)
             /\ IF ~ verified
                THEN Raise(p, "Verifying", "HTTPException",
                           Error("semantic_search", 403, "Invalid client"))
                ELSE IF ~ gate.allowed
                THEN Raise(p, "RateLimiting", "HTTPException",
                           Error("semantic_search", 429, "Rate limit exceeded"))
                ELSE IF Falsy(env.NIA_API_KEY)
                THEN Raise(p, "Config", "HTTPException", SearchRouteError("HTTPException"))
                ELSE \E outcome \in {"answered", "RequestError", "error"}, status \in BackendStatuses :
                        IF outcome = "answered" /\ status = 200
                        THEN Return(p, [route |-> "semantic_search", status |-> 200,
                                        body |-> "results"])
                        ELSE IF outcome = "answered"
                        THEN Raise(p, "Backend", [backend |-> status], SearchRouteError("HTTPException"))
                        ELSE Raise(p, "Upstream", outcome, SearchRouteError(outcome))
    /\ UNCHANGED <<now, limit, window, last, history, calls, clients, checked, frame>>
    /\ UNCHANGED <<env, releases, registry, req, republish>>

\* get_contents and update_file with its sha, or create_file when that raised: with
\* the document changed in between neither is taken and the index is left as it was
UpdateRegistryIndex(p) ==
    /\ Arrived(p)
    /\ \E user_agent \in UserAgents, ip \in IPs, admin_token \in AdminTokens,
          entries \in UpdatePayloads :
         LET verified   == verify_plgn_client(user_agent)
             authorized == Authorized(admin_token)
             gate       == RateGate(verified /\ authorized, rate_limit_store, ip,
                                    "registry_update", UpdateLimit)
         IN  /\ rate_limit_store' = gate.store
             /\ request' = Dispatch("registry_update", user_agent, ip, Some(admin_token))
             /\ IF ~ verified
                THEN /\ Raise(p, "Verifying", "HTTPException",
                              Error("registry_update", 403, "Invalid client"))
                     /\ UNCHANGED registry
                ELSE IF ~ authorized
                THEN /\ Raise(p, "Authorizing", "HTTPException",
                              Error("registry_update", 403, "Unauthorized"))
                     /\ UNCHANGED registry
                ELSE IF ~ gate.allowed
                THEN /\ Raise(p, "RateLimiting", "HTTPException",
                              Error("registry_update", 429, "Rate limit exceeded"))
                     /\ UNCHANGED registry
                ELSE IF Falsy(env.GITHUB_TOKEN)
                THEN /\ Raise(p, "Config", "HTTPException", UpdateRouteError("HTTPException"))
                     /\ UNCHANGED registry
                ELSE \E outcome \in {"written", "error"} :
                        IF outcome = "written"
                        THEN /\ registry' = Some(entries)
                             /\ Return(p, [route |-> "registry_update", status |-> 200,
                                           message |-> "Registry updated"])
                        ELSE /\ Raise(p, "Upstream", "error", UpdateRouteError("error"))
                             /\ UNCHANGED registry
    /\ UNCHANGED <<now, limit, window, last, history, calls, clients, checked, frame>>
    /\ UNCHANGED <<env, releases, req, republish>>

(***************************************************************************)
(* The specifications.                                                     *)
(***************************************************************************)
EnvAllSet ==
    [GITHUB_TOKEN |-> Some("ghp"), NIA_API_KEY |-> Some("nia"), ADMIN_TOKEN |-> Some("s3cret")]

\* no request has arrived
InitRequests ==
    /\ releases = <<>>
    /\ registry = None
    /\ pc = [p \in Requests |-> "idle"]
    /\ req = [p \in Requests |-> NoReq]
    /\ loc = [p \in Requests |-> NoLoc]
    /\ failure = [p \in Requests |-> NoFailure]
    /\ republish = [p \in Requests |-> FALSE]
    /\ resp = [p \in Requests |-> NoResp]
    /\ request = NoRequest

\* the proxy: its requests arrive in the order of their numbers and are handled
\* concurrently
Init ==
    /\ now = 0
    /\ rate_limit_store = BusyStore
    /\ limit = PublishLimit
    /\ window = DefaultWindow
    /\ last = NoCall
    /\ history = <<>>
    /\ calls = 0
    /\ clients = {}
    /\ checked = NoCheck
    /\ frame = <<>>
    /\ env \in Envs
    /\ InitRequests

Next ==
    \E p \in Requests :
       \/ PublishBegin(p)
       \/ ReleaseCreate(p)
       \/ AssetUpload(p)
       \/ ReleaseRollback(p)
       \/ IndexRead(p)
       \/ IndexWrite(p)
       \/ GetRegistryIndex(p)
       \/ SemanticSearch(p)
       \/ UpdateRegistryIndex(p)

Spec == Init /\ [][Next]_vars

\* a run of the rate limiter: two (ip, endpoint) pairs call it, one call after the
\* other, with one limit and one window, while time passes
InitRL ==
    /\ now = 0
    /\ rate_limit_store = <<>>
    /\ limit \in 1..MaxLimit
    /\ window \in 1..MaxWindow
    /\ last = NoCall
    /\ history = <<>>
    /\ calls = 0
    /\ clients \in {c \in SUBSET (IPs \X Endpoints) : Cardinality(c) = 2}
    /\ checked = NoCheck
    /\ frame = <<>>
    /\ env = EnvAllSet
    /\ InitRequests

NextRL ==
    \/ Tick
    \/ \E c \in clients : CheckRateLimit(c[1], c[2])

SpecRL == InitRL /\ [][NextRL]_vars

(***************************************************************************)
(* check_rate_limit called concurrently: a call reads the log of its key,  *)
(* and writes it back later; calls of other requests run in between.       *)
(***************************************************************************)
Callers == 1..NumCallers

\* a caller that is not inside check_rate_limit
Idle == [pc |-> "idle"]

\* rate_limit_store[key] = timestamps, after timestamps.append(now)
WrittenToCurrent(store, f) ==
    (RateKey(f.ip, f.endpoint) :> Append(StoreGet(store, RateKey(f.ip, f.endpoint)), f.now))
       @@ store
Written(store, f) ==
    (RateKey(f.ip, f.endpoint) :> Append(f.timestamps, f.now)) @@ store

\* key, now, window_start, rate_limit_store.get, the filter and the test of the
\* limit: the call returns False, or goes on to the write with its locals
RateRead(c, ip, endpoint) ==
    /\ frame[c].pc = "idle"
    /\ calls < MaxCalls
    /\ calls' = calls + 1
    /\ IF RateAllowed(rate_limit_store, RateKey(ip, endpoint), now, limit, window)
       THEN /\ frame' = [frame EXCEPT ![c] =
                   [pc |-> "write", ip |-> ip, endpoint |-> endpoint, now |-> now,
                    timestamps |-> FilterWindow(StoreGet(rate_limit_store, RateKey(ip, endpoint)),
                                                now - window)]]
            /\ UNCHANGED last
       ELSE /\ last' = [called |-> TRUE, ip |-> ip, endpoint |-> endpoint, allowed |-> FALSE]
            /\ UNCHANGED frame
    /\ UNCHANGED <<now, rate_limit_store, limit, window, history, clients, checked>>
    /\ UNCHANGED apivars

\* timestamps.append(now), rate_limit_store[key] = timestamps, return True
RateWrite(c) ==
    /\ frame[c].pc = "write"
    /\ rate_limit_store' = Written(rate_limit_store, frame[c])
    /\ history' = (<<frame[c].ip, frame[c].endpoint>> :>
                      Append(Allowed(history, frame[c].ip, frame[c].endpoint), frame[c].now))
                  @@ history
    /\ last' = [called |-> TRUE, ip |-> frame[c].ip, endpoint |-> frame[c].endpoint,
                allowed |-> TRUE]
    /\ frame' = [frame EXCEPT ![c] = Idle]
    /\ UNCHANGED <<now, limit, window, calls, clients, checked>>
    /\ UNCHANGED apivars

\* the callers all use one key
InitConc ==
    /\ now = 0
    /\ rate_limit_store = <<>>
    /\ limit \in 1..MaxLimit
    /\ window \in 1..MaxWindow
    /\ last = NoCall
    /\ history = <<>>
    /\ calls = 0
    /\ clients \in { {<<ip, "registry_publish">>} : ip \in IPs }
    /\ checked = NoCheck
    /\ frame = [c \in Callers |-> Idle]
    /\ env = EnvAllSet
    /\ InitRequests

NextConc ==
    \/ Tick
    \/ \E c \in Callers :
          \/ \E k \in clients : RateRead(c, k[1], k[2])
          \/ RateWrite(c)

SpecConc == InitConc /\ [][NextConc]_vars

(***************************************************************************)
(* verify_plgn_client applied to User-Agent values.                        *)
(***************************************************************************)
\* the pieces the User-Agent strings are made of
Fragments ==
    { <<"p", "l", "g", "n">>, <<"P", "L", "g", "N">>, <<"p", "l">>, <<"g", "n">>,
      <<"/">>, <<"-">>, <<" ">>, <<"c", "l", "i">>, <<"-", "C", "l", "I">>,
      UA_Cli, UA_Curl }

\* the strings made of at most n fragments
RECURSIVE Concats(_)
Concats(n) ==
    IF n = 0 THEN { <<>> }
    ELSE LET shorter == Concats(n - 1)
         IN  shorter \cup { s \o f : s \in shorter, f \in Fragments }

\* the values of the Optional[str] parameter: None, "" and the strings above
HeaderValues == {None} \cup { Some(s) : s \in Concats(MaxFragments) }

\* one call verify_plgn_client(user_agent)
VerifyClient ==
    /\ checked.result = None
    /\ checked' = [checked EXCEPT !.result = Some(verify_plgn_client(checked.user_agent))]
    /\ UNCHANGED <<now, rate_limit_store, limit, window, last, history, calls, clients, frame>>
    /\ UNCHANGED apivars

InitUA ==
    /\ now = 0
    /\ rate_limit_store = <<>>
    /\ limit = IndexLimit
    /\ window = DefaultWindow
    /\ last = NoCall
    /\ history = <<>>
    /\ calls = 0
    /\ clients = {}
    /\ checked \in { [user_agent |-> h, result |-> None] : h \in HeaderValues }
    /\ frame = <<>>
    /\ env = EnvAllSet
    /\ InitRequests

NextUA == VerifyClient

SpecUA == InitUA /\ [][NextUA]_vars

(***************************************************************************)
(* Properties of the publish workflow and of the routes (Spec).            *)
(***************************************************************************)
IsPublish(p) == req[p] # NoReq
FailedAt(p, at) == pc[p] = "Failed" /\ failure[p].at = at
Outcome(p) == <<resp[p].status, resp[p].detail>>
BytesOf(p) == b64decode(req[p].tarball_base64).bytes
Without(rels, tag) == [t \in DOMAIN rels \ {tag} |-> rels[t]]

\* the entries of the index for the name and version of request p
EntriesFor(p) ==
    IF registry = None THEN {}
    ELSE {i \in 1..Len(registry[1]) :
             registry[1][i].name = req[p].name /\ registry[1][i].version = req[p].version}

\* C1: when the asset upload fails the workflow goes on to delete the release it
\* created, and whether that delete succeeds or fails it ends Failed with the upload
\* error (500, "Failed to upload asset"); neither step writes the registry index.
C1_UploadFailure ==
    [][\A p \in Requests :
          /\ (pc[p] = "AssetUpload" /\ pc'[p] \notin {"AssetUpload", "IndexRead"}) =>
                /\ pc'[p] = "ReleaseRollback"
                /\ resp'[p] = NoResp
                /\ registry' = registry
          /\ (pc[p] = "ReleaseRollback" /\ pc'[p] # "ReleaseRollback") =>
                /\ pc'[p] = "Failed"
                /\ Outcome(p)' = <<500, "Failed to upload asset">>
                /\ registry' = registry
                /\ releases' \in {releases, Without(releases, TagName(req[p]))}
      ]_vars

\* C1 witness: a publish failed with the upload error although the delete of its
\* release failed too (the release is still there, without an asset), and the index
\* was never written.
C1_Witness ==
    \E p \in Requests :
       /\ FailedAt(p, "AssetUpload")
       /\ Outcome(p) = <<500, "Failed to upload asset">>
       /\ TagName(req[p]) \in DOMAIN releases
       /\ releases[TagName(req[p])].owner = p
       /\ releases[TagName(req[p])].asset = None
       /\ registry = None

\* C2: when the release host refuses the create because a release with the tag
\* name@version exists, the publish ends Failed with 409 (not 500), and the step
\* changes neither the registry index nor any release; a create for an existing tag
\* never succeeds.
C2_Conflict ==
    [][\A p \in Requests :
          (/\ pc[p] = "ReleaseCreate" /\ pc'[p] # "ReleaseCreate"
           /\ TagName(req[p]) \in DOMAIN releases) =>
             /\ pc'[p] = "Failed"
             /\ failure'[p].exc = "already_exists" =>
                   Outcome(p)' = <<409, "Release already exists">>
             /\ registry' = registry
             /\ releases' = releases
      ]_vars

\* C2 witness: a publish ended with 409 while the index has no entry for its name
\* and version and the release that was there before is still there.
C2_Witness ==
    \E p \in Requests :
       /\ FailedAt(p, "ReleaseCreate")
       /\ resp[p].status = 409
       /\ EntriesFor(p) = {}
       /\ TagName(req[p]) \in DOMAIN releases
       /\ releases[TagName(req[p])].owner # p

\* C3 as stated: a publish of a name and version that was published before with other
\* bytes succeeds too (it fails only for a reason of its own: identity, rate limit,
\* encoding, configuration or an upstream error, never because of the publication
\* that exists), and once it is Done the index holds one entry for the pair, with
\* its checksum and description.
C3_AsStated ==
    \A p \in Requests :
       republish[p] =>
          /\ pc[p] = "Failed" => failure[p].exc # "already_exists"
          /\ pc[p] = "Done" =>
                /\ Cardinality(EntriesFor(p)) = 1
                /\ \A i \in EntriesFor(p) :
                      /\ registry[1][i].checksum = resp[p].checksum
                      /\ registry[1][i].description = req[p].description

\* a publish of another request was acknowledged to its caller
PublishedBy(p) == pc[p] = "Done" /\ resp[p].route = "registry_publish"
Overwritten == \E p \in Requests : pc[p] = "Done" /\ resp[p].route = "registry_update"

\* the write of p would be made with a token that is not the document's, or as a
\* create although the document exists
StaleWrite(p) ==
    \/ loc[p].registry_sha = None /\ registry # None
    \/ loc[p].registry_sha # None
         /\ (registry = None \/ Some(ShaOf(registry[1])) # loc[p].registry_sha)

\* C4: a publish whose index write is made with a stale version token, or as a
\* create when the document exists, fails and leaves the index as it is; so, as long
\* as no /registry/update has overwritten the index, every publish that returned
\* success has its entry in the index: two successful publishes of different
\* (name, version) pairs are both listed.
C4_NoLostUpdate ==
    /\ [][\A p \in Requests :
             (pc[p] = "IndexWrite" /\ pc'[p] # "IndexWrite" /\ StaleWrite(p)) =>
                /\ pc'[p] = "Failed"
                /\ registry' = registry
         ]_vars
    /\ [](~ Overwritten =>
            \A p \in Requests :
               PublishedBy(p) =>
                  \E i \in EntriesFor(p) : registry[1][i].checksum = resp[p].checksum)

\* C4 witness: two publishes of different (name, version) pairs returned success and
\* the index lists both.
C4_Witness ==
    \E p, q \in Requests :
       /\ PublishedBy(p) /\ PublishedBy(q)
       /\ req[p].version # req[q].version
       /\ registry # None /\ Len(registry[1]) = 2
       /\ EntriesFor(p) # {} /\ EntriesFor(q) # {}

\* C5: a publish that failed in IndexUpdate reports 500 "Failed to update registry",
\* and no publish that failed at another step reports the same outcome.
C5_DistinctIndexFailure ==
    \A p \in Requests :
       (IsPublish(p) /\ FailedAt(p, "IndexUpdate")) =>
          /\ Outcome(p) = <<500, "Failed to update registry">>
          /\ \A q \in Requests :
                (IsPublish(q) /\ pc[q] = "Failed" /\ failure[q].at # "IndexUpdate") =>
                   Outcome(q) # Outcome(p)

\* C5 witness: one publish failed in IndexUpdate, with its release and asset
\* published, and another failed in the asset upload.
C5_Witness ==
    \E p, q \in Requests :
       /\ IsPublish(p) /\ FailedAt(p, "IndexUpdate")
       /\ releases[TagName(req[p])].asset # None
       /\ IsPublish(q) /\ FailedAt(q, "AssetUpload")

\* C6: a release disappears only in the rollback step of the workflow that created
\* it, that step is entered only from a failed asset upload, and after a failure in
\* IndexUpdate the release of the workflow and its asset are still published.
C6_RollbackOnlyAfterUpload ==
    /\ [][/\ \A t \in DOMAIN releases :
                t \notin DOMAIN releases' =>
                   \E p \in Requests :
                      /\ pc[p] = "ReleaseRollback" /\ pc'[p] = "Failed"
                      /\ t = TagName(req[p])
                      /\ releases[t].owner = p
          /\ \A p \in Requests :
                (pc'[p] = "ReleaseRollback" /\ pc[p] # "ReleaseRollback") => pc[p] = "AssetUpload"
         ]_vars
    /\ [](\A p \in Requests :
            (IsPublish(p) /\ FailedAt(p, "IndexUpdate")) =>
               /\ TagName(req[p]) \in DOMAIN releases
               /\ releases[TagName(req[p])].owner = p
               /\ releases[TagName(req[p])].asset = Some(BytesOf(p)))

\* C6 witness: a publish failed in IndexUpdate and its release, with the asset, is
\* there, while another publish got the Conflict for the same tag.
C6_Witness ==
    \E p, q \in Requests :
       /\ IsPublish(p) /\ FailedAt(p, "IndexUpdate")
       /\ releases[TagName(req[p])].asset = Some(BytesOf(p))
       /\ IsPublish(q) /\ FailedAt(q, "ReleaseCreate") /\ resp[q].status = 409
       /\ TagName(req[q]) = TagName(req[p])

\* C10: on every route, a request that is rejected with 403 (unrecognized client, or
\* on /registry/update a wrong admin token) leaves the rate-limit store as it was.
C10_RejectedKeepsBudget ==
    [][\A p \in Requests :
          (pc[p] = "idle" /\ pc'[p] = "Failed" /\ resp'[p].status = 403) =>
             rate_limit_store' = rate_limit_store
      ]_vars

\* C10 witness: a request was rejected for its client string and an update for its
\* admin token, and the store is still the one the run began with.
C10_Witness ==
    \E p, q \in Requests :
       /\ pc[p] = "Failed" /\ Outcome(p) = <<403, "Invalid client">>
       /\ pc[q] = "Failed" /\ Outcome(q) = <<403, "Unauthorized">>
       /\ rate_limit_store = BusyStore

(***************************************************************************)
(* Properties of the rate limiter (sequential calls, SpecRL).              *)
(***************************************************************************)
\* a step that is a call of check_rate_limit
IsCall == calls' # calls

\* the number of timestamps of a log that lie inside the window ending at t
InWindowCount(log, t, win) == Cardinality({i \in 1..Len(log) : log[i] > t - win})

\* C7: check_rate_limit returns true iff the number of in-window timestamps stored
\* for the key before the call is strictly less than limit; when it returns true
\* exactly one timestamp, now, is appended to the in-window ones and persisted, when
\* it returns false nothing is written; so no persisted log ever holds more than
\* limit entries.
C7_Decision ==
    /\ [](\A k \in DOMAIN rate_limit_store : Len(rate_limit_store[k]) <= limit)
    /\ [][IsCall =>
            LET key    == last'.ip \o ":" \o last'.endpoint
                before == StoreGet(rate_limit_store, key)
                after  == StoreGet(rate_limit_store', key)
                n      == InWindowCount(before, now, window)
            IN  /\ last'.allowed <=> n < limit
                /\ last'.allowed =>
                      /\ Len(after) = n + 1
                      /\ after[Len(after)] = now
                      /\ \A i \in 1..n : after[i] > now - window
                      /\ key \in DOMAIN rate_limit_store'
                /\ ~ last'.allowed => rate_limit_store' = rate_limit_store
       ]_vars

\* C7 witness: a call was allowed and filled the log of its key up to the limit,
\* with more than one entry in it.
C7_Witness ==
    /\ last.called /\ last.allowed
    /\ limit > 1
    /\ Len(StoreGet(rate_limit_store, RateKey(last.ip, last.endpoint))) = limit

\* the time of the first of the limit most recent allowed calls of a key
FirstOfBurst(h) == h[Len(h) - limit + 1]

\* C8 as stated: once limit calls were allowed, a call is rejected until the time
\* has advanced past window from the first of them (elapsed <= window: rejected),
\* and allowed after that (elapsed > window).
C8_AsStated ==
    [][IsCall =>
         LET h == Allowed(history, last'.ip, last'.endpoint)
         IN  Len(h) >= limit =>
               /\ now - FirstOfBurst(h) <= window => ~ last'.allowed
               /\ now - FirstOfBurst(h) > window => last'.allowed
      ]_vars

\* C8 (amended): after limit allowed calls, a call is rejected while less than
\* window has elapsed since the first of them (in particular the call that follows
\* immediately), and is allowed again once window or more has elapsed; calls that
\* were rejected do not count.
C8_Window ==
    [][IsCall =>
         LET h == Allowed(history, last'.ip, last'.endpoint)
         IN  /\ Len(h) < limit => last'.allowed
             /\ Len(h) >= limit =>
                   /\ now - FirstOfBurst(h) < window => ~ last'.allowed
                   /\ now - FirstOfBurst(h) >= window => last'.allowed
      ]_vars

\* C8 witness: limit + 1 calls of one key were allowed and the last of them came
\* window or more after the first of the limit calls before it, while another call
\* was rejected in between (the store holds fewer entries than were allowed).
C8_Witness ==
    /\ last.called /\ last.allowed
    /\ LET h == Allowed(history, last.ip, last.endpoint)
       IN  /\ Len(h) = limit + 1
           /\ h[Len(h)] = now
           /\ now - h[1] >= window
           /\ calls > limit + 1

\* C9: a call for (ip1, e1) changes neither the persisted log of any other
\* (ip, endpoint) pair nor the decision a call for that pair would get.
C9_KeyIsolation ==
    [][IsCall =>
         \A ip \in IPs, e \in Endpoints :
            <<ip, e>> # <<last'.ip, last'.endpoint>> =>
               /\ StoreGet(rate_limit_store', RateKey(ip, e)) = StoreGet(rate_limit_store, RateKey(ip, e))
               /\ RateAllowed(rate_limit_store', RateKey(ip, e), now, limit, window)
                    = RateAllowed(rate_limit_store, RateKey(ip, e), now, limit, window)
      ]_vars

\* C9 witness: a call is allowed for one key while the budget of another key with
\* the same ip is used up.
C9_Witness ==
    /\ last.called /\ last.allowed
    /\ \E e \in Endpoints \ {last.endpoint} :
          /\ <<last.ip, e>> \in clients
          /\ ~ RateAllowed(rate_limit_store, RateKey(last.ip, e), now, limit, window)

(***************************************************************************)
(* Properties of the registry index and of the responses (Spec).           *)
(***************************************************************************)
\* the name and version of the i-th entry of the index
PairAt(entries, i) == <<entries[i].name, entries[i].version>>

\* C11 as stated: whatever /registry/publish and /registry/update requests were
\* handled since the index was absent, no two entries of the index have the same
\* name and version.
C11_AsStated ==
    registry # None =>
       \A i, j \in 1..Len(registry[1]) :
          i # j => PairAt(registry[1], i) # PairAt(registry[1], j)

\* the first entry of the index for the name and version of request p
FirstFor(entries, p) ==
    CHOOSE i \in 1..Len(entries) :
       /\ PairAt(entries, i) = <<req[p].name, req[p].version>>
       /\ \A j \in 1..(i - 1) : PairAt(entries, j) # <<req[p].name, req[p].version>>

\* C12: when a publish ends Done, the checksum of its response is the hash of the
\* bytes decoded from the request, which are the bytes of the asset of its release;
\* the release notes and the index entry written for its name and version carry the
\* same checksum; and the download url of the response is that of the asset this
\* workflow uploaded and is the downloadUrl of that index entry.
C12_Consistent ==
    [][\A p \in Requests :
          (pc[p] = "IndexWrite" /\ pc'[p] = "Done") =>
             LET tag   == TagName(req[p])
                 entry == registry'[1][FirstFor(registry'[1], p)]
             IN  /\ resp'[p].checksum = sha256(BytesOf(p))
                 /\ tag \in DOMAIN releases'
                 /\ releases'[tag].owner = p
                 /\ releases'[tag].asset = Some(BytesOf(p))
                 /\ releases'[tag].notes = resp'[p].checksum
                 /\ \E i \in 1..Len(registry'[1]) :
                       PairAt(registry'[1], i) = <<req[p].name, req[p].version>>
                 /\ entry.checksum = resp'[p].checksum
                 /\ entry.downloadUrl = resp'[p].downloadUrl
                 /\ resp'[p].downloadUrl = DownloadUrl(tag, FileName(req[p]))
      ]_vars

\* C12 witness: two publishes with different bytes are Done, and each one's response,
\* release and index entry agree on the checksum of its own bytes.
C12_Witness ==
    \E p, q \in Requests :
       /\ PublishedBy(p) /\ PublishedBy(q)
       /\ BytesOf(p) # BytesOf(q)
       /\ \A x \in {p, q} :
             /\ resp[x].checksum = sha256(BytesOf(x))
             /\ releases[TagName(req[x])].notes = resp[x].checksum
             /\ EntriesFor(x) # {}
             /\ registry[1][FirstFor(registry[1], x)].checksum = resp[x].checksum

\* request p was a search that ended with an error
SearchFailed(p) == pc[p] = "Failed" /\ resp[p].route = "semantic_search"

\* C13 as stated: a search that the backend answered with a status S other than
\* success ends with that status S, and a search whose backend could not be reached
\* (or timed out) ends with 503; neither ends with 500.
C13_AsStated ==
    \A p \in Requests :
       SearchFailed(p) =>
          /\ failure[p].at = "Backend" => resp[p].status = failure[p].exc.backend
          /\ (failure[p].at = "Upstream" /\ failure[p].exc = "RequestError") =>
                resp[p].status = 503

\* C14 as stated: a request that passed verification and the rate limit and then
\* found the secret of its route missing ends with 500 on the registry routes
\* (repository token) and with 503 on /semantic/search (search key).
C14_AsStated ==
    \A p \in Requests :
       FailedAt(p, "Config") =>
          resp[p].status = IF resp[p].route = "semantic_search" THEN 503 ELSE 500

\* the step handles request p on /registry/update
IsUpdate(p) == pc[p] = "idle" /\ pc'[p] # "idle" /\ request'.route = "registry_update"

\* C15: a /registry/update request writes the index (and is answered with success)
\* only if its User-Agent is recognized, an admin token is configured and is not
\* empty, the token of the request equals it, and fewer than 10 requests of its ip
\* for registry_update lie in the last hour; otherwise the index is unchanged, and
\* with no admin token configured every update ends Failed.
C15_UpdateGuard ==
    [][\A p \in Requests :
          IsUpdate(p) =>
             LET key == request'.ip \o ":" \o "registry_update"
                 ok  == /\ verify_plgn_client(request'.user_agent)
                        /\ env.ADMIN_TOKEN # None
                        /\ env.ADMIN_TOKEN[1] # ""
                        /\ request'.admin_token = env.ADMIN_TOKEN
                        /\ InWindowCount(StoreGet(rate_limit_store, key), now, DefaultWindow)
                             < UpdateLimit
             IN  /\ resp'[p].route = "registry_update"
                 /\ ~ ok => (registry' = registry /\ pc'[p] = "Failed")
                 /\ (env.ADMIN_TOKEN = None \/ env.ADMIN_TOKEN[1] = "") =>
                       resp'[p].status = 403
      ]_vars

\* C15 witness: one update was written with the configured token, and another one,
\* from a recognized client with another token, was rejected and left the index as
\* written.
C15_Witness ==
    \E p, q \in Requests :
       /\ pc[p] = "Done" /\ resp[p].route = "registry_update"
       /\ pc[q] = "Failed" /\ Outcome(q) = <<403, "Unauthorized">>
       /\ p < q
       /\ request.route = "registry_update"
       /\ request.admin_token # env.ADMIN_TOKEN
       /\ registry = Some(<<AdminEntry("first"), AdminEntry("second")>>)

(***************************************************************************)
(* Properties of verify_plgn_client (SpecUA).                              *)
(***************************************************************************)
\* two characters that are the same when case is ignored
SameLetter(a, b) ==
    \/ a = b
    \/ \E pair \in { <<"P", "p">>, <<"L", "l">>, <<"G", "g">>, <<"N", "n">>,
                     <<"C", "c">>, <<"I", "i">>, <<"U", "u">>, <<"R", "r">> } :
          <<a, b>> = pair \/ <<b, a>> = pair

\* the marker occurs in the string at some position, case ignored
HasMarker(s, marker) ==
    \E i \in 1..(Len(s) - Len(marker) + 1) :
       \A k \in 1..Len(marker) : SameLetter(s[i + k - 1], marker[k])

\* C16: verify_plgn_client returns false for None and for the empty string, and
\* for any other string it returns true iff the string contains "plgn/" or
\* "plgn-cli" with case ignored; "PLGN-CLI/1.0" is recognized, "curl/7.0" is not.
C16_Recognized ==
    checked.result # None =>
       LET ua == checked.user_agent
           r  == checked.result[1]
       IN  /\ ua = None => ~ r
           /\ ua = Some(<<>>) => ~ r
           /\ (ua # None /\ ua # Some(<<>>)) =>
                 (r <=> \/ HasMarker(ua[1], <<"p", "l", "g", "n", "/">>)
                        \/ HasMarker(ua[1], <<"p", "l", "g", "n", "-", "c", "l", "i">>))
           /\ ua = Some(<<"P", "L", "G", "N", "-", "C", "L", "I", "/", "1", ".", "0">>) => r
           /\ ua = Some(<<"c", "u", "r", "l", "/", "7", ".", "0">>) => ~ r

\* C16 witness: a string that holds a marker in mixed case, not at its beginning,
\* was recognized.
C16_Witness ==
    /\ checked.user_agent = Some(<<" ", "P", "L", "g", "N", "-", "C", "l", "I">>)
    /\ checked.result = Some(TRUE)

(***************************************************************************)
(* Further properties of the rate limiter (sequential calls, SpecRL).      *)
(***************************************************************************)
\* C17: right after a call of check_rate_limit has returned, allowed or rejected,
\* every timestamp of the persisted log of the call's key lies inside the window
\* that ends now: it is later than now - window.
C17_LogInWindow ==
    [][IsCall =>
         LET log == StoreGet(rate_limit_store', last'.ip \o ":" \o last'.endpoint)
         IN  \A i \in 1..Len(log) : log[i] > now - window /\ log[i] <= now
      ]_vars

\* C17 witness: a call was rejected after an earlier call of the key had dropped a
\* timestamp that had left the window; the log is full and not empty.
C17_Witness ==
    /\ last.called /\ ~ last.allowed
    /\ LET log == StoreGet(rate_limit_store, RateKey(last.ip, last.endpoint))
       IN  /\ Len(log) = limit
           /\ Len(Allowed(history, last.ip, last.endpoint)) > Len(log)

(***************************************************************************)
(* Further properties of the publish workflow (Spec).                      *)
(***************************************************************************)
\* the positions of the entries of a list for the name and version of request p
PositionsFor(entries, p) ==
    {i \in 1..Len(entries) : PairAt(entries, i) = <<req[p].name, req[p].version>>}

\* the entry is the one the workflow of request p publishes
EntryOf(e, p) ==
    /\ e.name = req[p].name /\ e.version = req[p].version
    /\ e.description = req[p].description
    /\ e.checksum = sha256(BytesOf(p))

\* C18: a write of the index by the IndexUpdate step of a publish changes only the
\* entry of the published name and version: if the index has entries for the pair,
\* the first of them is replaced where it stands and the length stays; otherwise
\* the new entry is put at the end; every other entry keeps its position and value.
\* So a publish of another version of a name appends and replaces nothing.
C18_Frame ==
    [][\A p \in Requests :
          (pc[p] = "IndexWrite" /\ pc'[p] = "Done") =>
             LET old == IF registry = None THEN <<>> ELSE registry[1]
                 new == registry'[1]
                 at  == PositionsFor(old, p)
             IN  IF at = {}
                 THEN /\ Len(new) = Len(old) + 1
                      /\ \A i \in 1..Len(old) : new[i] = old[i]
                      /\ EntryOf(new[Len(new)], p)
                 ELSE /\ Len(new) = Len(old)
                      /\ \E i \in at :
                            /\ \A j \in at : i <= j
                            /\ EntryOf(new[i], p)
                            /\ \A j \in 1..Len(old) : j # i => new[j] = old[j]
      ]_vars

\* C18 witness: a publish replaced the first entry of an index that an update had
\* written, where it stood, and the entry after it is as the update wrote it.
C18_Witness ==
    \E p \in Requests :
       /\ PublishedBy(p)
       /\ registry # None /\ Len(registry[1]) = 2
       /\ EntryOf(registry[1][1], p)
       /\ registry[1][2] = AdminEntry("second")

\* the step handles request p on /registry/publish up to the call of the release host
IsPublishBegin(p) == pc[p] = "idle" /\ pc'[p] # "idle" /\ request'.route = "registry_publish"

\* the steps of a publish before anything is sent to the release host
EarlySteps == {"Verifying", "RateLimiting", "Decoding", "Config"}

\* C19: verification, rate limit, decoding and the repository token are checked
\* without any external effect: the step creates no release, uploads no asset and
\* leaves the index as it is; it goes on to the release creation iff all four
\* succeed, and a publish that failed at one of them owns no release.  Release
\* creation is reached from nowhere else.
C19_NoEarlyEffect ==
    /\ [][\A p \in Requests :
             /\ IsPublishBegin(p) =>
                   LET key == request'.ip \o ":" \o "registry_publish"
                       ok  == /\ verify_plgn_client(request'.user_agent)
                              /\ InWindowCount(StoreGet(rate_limit_store, key), now, DefaultWindow)
                                   < PublishLimit
                              /\ Len(req'[p].tarball_base64) % 4 = 0
                              /\ env.GITHUB_TOKEN \notin {None, Some("")}
                   IN  /\ releases' = releases
                       /\ registry' = registry
                       /\ ok => pc'[p] = "ReleaseCreate"
                       /\ ~ ok => (pc'[p] = "Failed" /\ failure'[p].at \in EarlySteps)
             /\ (pc'[p] = "ReleaseCreate" /\ pc[p] # "ReleaseCreate") => pc[p] = "idle"
         ]_vars
    /\ [](\A p \in Requests :
            (IsPublish(p) /\ pc[p] = "Failed" /\ failure[p].at \in EarlySteps) =>
               \A t \in DOMAIN releases : releases[t].owner # p)

\* C19 witness: one publish failed in Decoding and another for the missing
\* repository token, and there is no release and no index.
C19_Witness ==
    \E p, q \in Requests :
       /\ IsPublish(p) /\ FailedAt(p, "Decoding")
       /\ IsPublish(q) /\ FailedAt(q, "Config")
       /\ releases = <<>>
       /\ registry = None

(***************************************************************************)
(* Properties of concurrent calls of the rate limiter (SpecConc).          *)
(***************************************************************************)
\* the number of allowed calls of a key whose timestamps lie in the window that
\* ends at t
AllowedInWindow(h, t) == Cardinality({i \in 1..Len(h) : h[i] > t - window /\ h[i] <= t})

\* C20 as stated: however the reads and writes of concurrent calls for one key
\* interleave, the calls that were allowed with timestamps inside one window of
\* length window are never more than limit.
C20_AsStated ==
    \A k \in DOMAIN history, t \in 0..MaxTime : AllowedInWindow(history[k], t) <= limit

\* C20 (amended): however the reads and writes interleave, a call is rejected iff
\* the log it reads holds limit or more timestamps inside its window, an allowed
\* call writes the in-window timestamps it read followed by its own, and so the
\* persisted log of a key never holds more than limit timestamps; the calls
\* allowed inside one window can be more than that when calls overlap.
C20_LogBounded ==
    /\ [](\A k \in DOMAIN rate_limit_store : Len(rate_limit_store[k]) <= limit)
    /\ [][\A c \in Callers :
             /\ (calls' # calls /\ frame[c].pc = "idle" /\ frame'[c].pc = "write") =>
                   LET log == StoreGet(rate_limit_store, frame'[c].ip \o ":" \o frame'[c].endpoint)
                   IN  /\ InWindowCount(log, now, window) < limit
                       /\ Len(frame'[c].timestamps) = InWindowCount(log, now, window)
                       /\ \A i \in 1..Len(frame'[c].timestamps) :
                             frame'[c].timestamps[i] > now - window
                       /\ frame'[c].now = now
             /\ (calls' # calls /\ frame' = frame) =>
                   /\ ~ last'.allowed
                   /\ InWindowCount(StoreGet(rate_limit_store, last'.ip \o ":" \o last'.endpoint),
                                    now, window) >= limit
             /\ (frame[c].pc = "write" /\ frame'[c].pc = "idle") =>
                   /\ last'.allowed
                   /\ StoreGet(rate_limit_store', frame[c].ip \o ":" \o frame[c].endpoint)
                        = Append(frame[c].timestamps, frame[c].now)
         ]_vars

\* C20 witness: with limit 1, two calls that overlapped were both allowed at the
\* same time, and the log holds one timestamp.
C20_Witness ==
    /\ limit = 1
    /\ last.called /\ last.allowed
    /\ Len(Allowed(history, last.ip, last.endpoint)) = 2
    /\ Allowed(history, last.ip, last.endpoint)[1] = Allowed(history, last.ip, last.endpoint)[2]
    /\ Len(StoreGet(rate_limit_store, RateKey(last.ip, last.endpoint))) = 1

====
